---- MODULE Spec2Model ----
(***************************************************************************)
(* The room registry and the Socket.IO event handlers of server.js         *)
(* (a Ma Soi / Werewolf role dealer), as a state machine.  One action per  *)
(* inbound event; each action is the whole handler, emissions included.    *)
(***************************************************************************)
EXTENDS Integers, Sequences, FiniteSets, TLC

\* ------------------------------------------------------------------ bounds
\* Spec: one room code, three connections, lists of up to three roles.
\* SpecNames: one room code, two connections, lists of up to one role.
\* SpecShuffle: the shuffle alone.  SpecCreate: create_room attempt by attempt.
\* Connections ever accepted (socket ids are 1..MaxConns, never reused).
MaxConns == 3
\* Math.random is restricted to the draws that spell the first NumCodes codes.
NumCodes == 1
\* Longest selectedRoles list a client sends.
MaxRoles == 3
\* SpecRooms: two room codes, two connections, lists of up to one role.
RoomsConns == 2
RoomsCodes == 2
RoomsRoles == 1
\* Most attempts of generateRoomCode (the first call plus its recursive retries).
MaxDraws == 2
\* SpecShuffle: the longest list shuffled.
MaxShuffle == 4
\* SpecCreate: the retries of one generateRoomCode that are counted (further
\* retries happen and leave the count where it is).
MaxRetries == 2

\* --------------------------------------------------------------- constants
\* moderatorId: null
NoId == 0
\* role: null
NoRole == "null"
\* name absent from the join_room payload (undefined, falsy)
NoName == <<>>
\* the alphabet of generateRoomCode
chars == << "A", "B", "C", "D", "E", "F", "G", "H", "J", "K", "L", "M", "N", "P", "Q", "R",
            "S", "T", "U", "V", "W", "X", "Y", "Z", "2", "3", "4", "5", "6", "7", "8", "9" >>
\* for (let i = 0; i < 4; i++)
CodeLen == 4

\* The role names and display names clients send.
Roles == {"Wolf", "Villager"}
Names == {NoName, <<"Ana">>}
\* Enough role names for a list of MaxShuffle different roles.
ShuffleRoles == Roles \cup {"Seer", "Guard"}

\* ----------------------------------------------------------------- strings
\* A string is a sequence of one-character strings.
LowerCase == << "a", "b", "c", "d", "e", "f", "g", "h", "i", "j", "k", "l", "m",
                "n", "o", "p", "q", "r", "s", "t", "u", "v", "w", "x", "y", "z" >>
UpperCase == << "A", "B", "C", "D", "E", "F", "G", "H", "I", "J", "K", "L", "M",
                "N", "O", "P", "Q", "R", "S", "T", "U", "V", "W", "X", "Y", "Z" >>
WhiteSpace == {" ", "\t", "\n"}

UpperChar(ch) ==
    IF \E k \in DOMAIN LowerCase : LowerCase[k] = ch
    THEN UpperCase[CHOOSE k \in DOMAIN LowerCase : LowerCase[k] = ch]
    ELSE ch

LowerChar(ch) ==
    IF \E k \in DOMAIN UpperCase : UpperCase[k] = ch
    THEN LowerCase[CHOOSE k \in DOMAIN UpperCase : UpperCase[k] = ch]
    ELSE ch

\* String.prototype.toUpperCase
toUpperCase(s) == [k \in DOMAIN s |-> UpperChar(s[k])]

RECURSIVE TrimStart(_)
TrimStart(s) ==
    IF s /= <<>> /\ Head(s) \in WhiteSpace THEN TrimStart(Tail(s)) ELSE s

RECURSIVE TrimEnd(_)
TrimEnd(s) ==
    IF s /= <<>> /\ s[Len(s)] \in WhiteSpace
    THEN TrimEnd(SubSeq(s, 1, Len(s) - 1))
    ELSE s

\* String.prototype.trim
trim(s) == TrimEnd(TrimStart(s))

\* ----------------------------------------------------------- the rooms Map
\* const rooms = new Map(): a sequence of entries in insertion order.
NewMap == <<>>

MapHas(m, key) == \E k \in DOMAIN m : m[k].key = key

MapGet(m, key) == m[CHOOSE k \in DOMAIN m : m[k].key = key].val

\* Map.set: an existing key keeps its place, a new key goes last.
MapSet(m, key, val) ==
    IF MapHas(m, key)
    THEN [k \in DOMAIN m |-> IF m[k].key = key THEN [key |-> key, val |-> val] ELSE m[k]]
    ELSE Append(m, [key |-> key, val |-> val])

\* ------------------------------------------------------------------- state
VARIABLES
    rooms,      \* the registry: Map<RoomCode, {moderatorId, players, status}>
    adapter,    \* broadcast groups: the pairs <<socket id, room code>> of socket.join
    sockets,    \* io.sockets.sockets: the ids of the connected sockets
    nextId,     \* how many connections were accepted so far
    last,       \* the inbound event handled last: its name and the socket it came from
    out,        \* what that handler emitted, in order: [to, ev, data]
    seen,       \* per connected socket, the ids of the last player_list_update it got
    call        \* the function call in progress, with its locals, or idle

vars == <<rooms, adapter, sockets, nextId, last, out, seen, call>>

\* ----------------------------------------------------------------- helpers
\* The code the four draws of one attempt spell (chars.charAt(index)).
CodeOfDraw(draw) == [k \in 1..CodeLen |-> chars[draw[k] + 1]]

\* One result of Math.floor(Math.random() * chars.length), four times: the
\* base-32 digits of n.
DrawOf(n) ==
    [k \in 1..CodeLen |-> (n \div (Len(chars) ^ (CodeLen - k))) % Len(chars)]

Draws(numCodes) == {DrawOf(n) : n \in 0..(numCodes - 1)}

RECURSIVE SeqsUpTo(_, _)
SeqsUpTo(S, n) ==
    IF n = 0 THEN {<<>>}
    ELSE LET shorter == SeqsUpTo(S, n - 1)
         IN  shorter \cup {Append(s, x) : s \in {t \in shorter : Len(t) = n - 1}, x \in S}

DrawSeqs(numCodes) == SeqsUpTo(Draws(numCodes), MaxDraws) \ {<<>>}

\* The recursion of generateRoomCode has not returned within the attempts given.
Pending == <<>>

\* Faulty variant: the first attempt is returned without the rooms.has retry.
generateRoomCodeNoRetry(m, attempts) == CodeOfDraw(Head(attempts))

\* Faulty variant: the test of rooms.has is negated.
RECURSIVE generateRoomCodeInverted(_, _)
generateRoomCodeInverted(m, attempts) ==
    LET code == CodeOfDraw(Head(attempts))
    IN  IF ~MapHas(m, code)
        THEN IF Len(attempts) > 1 THEN generateRoomCodeInverted(m, Tail(attempts)) ELSE Pending
        ELSE code

\* generateRoomCode, fed the draws of its successive attempts.  Pending when
\* every attempt given collided (the recursion goes on past them).
RECURSIVE generateRoomCode(_, _)
generateRoomCode(m, attempts) ==
    LET code == CodeOfDraw(Head(attempts))
    IN  IF MapHas(m, code)
        THEN IF Len(attempts) > 1 THEN generateRoomCode(m, Tail(attempts)) ELSE Pending
        ELSE code

\* Faulty variant: a room is made with the status assigned.
getRoomAssigned(m, roomId) ==
    IF ~MapHas(m, roomId)
    THEN MapSet(m, roomId, [moderatorId |-> NoId, players |-> <<>>, status |-> "assigned"])
    ELSE m

\* getRoom: the registry after the lazy creation; the room is MapGet of it.
getRoom(m, roomId) ==
    IF ~MapHas(m, roomId)
    THEN MapSet(m, roomId, [moderatorId |-> NoId, players |-> <<>>, status |-> "waiting"])
    ELSE m

buildRoleSummary(players) ==
    [k \in DOMAIN players |-> [name |-> players[k].name, role |-> players[k].role]]

\* Members of the broadcast group of a room code.
Members(ad, code) == {pair[1] : pair \in {q \in ad : q[2] = code}}

\* socket.emit(ev, data)
SocketEmit(id, ev, data) == [to |-> {id}, ev |-> ev, data |-> data]

\* io.to(roomId).emit(ev, data): every socket of the group
IoToRoom(ad, code, ev, data) == [to |-> Members(ad, code), ev |-> ev, data |-> data]

\* io.to(socketId).emit(ev, data): the socket's own room, while it is connected
IoToId(socks, id, ev, data) == [to |-> {id} \cap socks, ev |-> ev, data |-> data]

\* Faulty variant: any socket may act on a live room.
NotModeratorRoomOnly(m, roomId, id) == ~MapHas(m, roomId)

\* Faulty variant: a room without moderator takes orders from anyone.
NotModeratorLenient(m, roomId, id) ==
    ~MapHas(m, roomId)
       \/ (MapGet(m, roomId).moderatorId /= NoId /\ id /= MapGet(m, roomId).moderatorId)

\* const room = rooms.get(roomId); if (!room) return;
\* if (socket.id !== room.moderatorId) return;
NotModerator(m, roomId, id) ==
    ~MapHas(m, roomId) \/ id /= MapGet(m, roomId).moderatorId

\* Faulty variant: only too many roles are refused.
RolesMismatchOnlyMore(selectedRoles, players) == Len(selectedRoles) > Len(players)

\* if (selectedRoles.length !== room.players.length)
RolesMismatch(selectedRoles, players) == Len(selectedRoles) /= Len(players)

\* Faulty variant: the sweep never deletes.
EmptyRoomNever(players, moderatorId) == FALSE

\* Faulty variant: || in place of &&.
EmptyRoomEither(players, moderatorId) == Len(players) = 0 \/ moderatorId = NoId

\* Faulty variant: the moderator is not looked at.
EmptyRoomNoPlayers(players, moderatorId) == Len(players) = 0

\* if (room.players.length === 0 && !room.moderatorId)
EmptyRoom(players, moderatorId) == Len(players) = 0 /\ moderatorId = NoId

\* ------------------------------------------------------------------ events
Init ==
    /\ rooms = NewMap
    /\ adapter = {}
    /\ sockets = {}
    /\ nextId = 0
    /\ last = [ev |-> "none", id |-> NoId]
    /\ out = <<>>
    /\ seen = <<>>
    /\ call = [op |-> "idle", id |-> NoId, retries |-> 0]

\* io.on('connection'): a new socket with a fresh id
Connection(maxConns) ==
    /\ nextId < maxConns
    /\ nextId' = nextId + 1
    /\ sockets' = sockets \cup {nextId + 1}
    /\ last' = [ev |-> "connection", id |-> nextId + 1]
    /\ out' = <<>>
    /\ UNCHANGED <<rooms, adapter>>

\* socket.on('create_room')
CreateRoom(id, attempts) ==
    LET code   == generateRoomCode(rooms, attempts)
        made   == getRoom(rooms, code)
        room   == [MapGet(made, code) EXCEPT !.moderatorId = id]
    IN  /\ code /= Pending
        /\ rooms' = MapSet(made, code, room)
        /\ adapter' = adapter \cup {<<id, code>>}
        /\ out' = << SocketEmit(id, "room_created", [roomCode |-> code]),
                     SocketEmit(id, "role_assigned", [type |-> "moderator"]),
                     SocketEmit(id, "player_list_update", room.players),
                     SocketEmit(id, "init_state", [hasModerator |-> TRUE, playerCount |-> 0]) >>
        /\ last' = [ev |-> "create_room", id |-> id]
        /\ UNCHANGED <<sockets, nextId>>

\* name || `Player_${socket.id.substr(0, 4)}`: the model's ids are shorter than
\* four characters, so the prefix is the id.
PlayerName(id, name) == IF name /= NoName THEN name ELSE <<"Player_", id>>

HasPlayer(players, id) == \E k \in DOMAIN players : players[k].id = id

\* players.filter(p => p.id !== id)
WithoutPlayer(players, id) == SelectSeq(players, LAMBDA p : p.id /= id)

\* Faulty variant: the push is not guarded by isExist.
AddPlayerAlways(players, id, name) ==
    Append(players, [id |-> id, name |-> PlayerName(id, name), role |-> NoRole])

\* room.players.push({id, name, role: null}) unless the socket is already a player
AddPlayer(players, id, name) ==
    IF ~HasPlayer(players, id)
    THEN Append(players, [id |-> id, name |-> PlayerName(id, name), role |-> NoRole])
    ELSE players

\* Faulty variant: the unknown code goes through getRoom and the socket joins.
JoinUnknownLazy(id, code) ==
    /\ rooms' = getRoom(rooms, code)
    /\ adapter' = adapter \cup {<<id, code>>}
    /\ out' = << SocketEmit(id, "role_assigned", [type |-> "player", roomCode |-> code]) >>

\* return socket.emit('error_msg', `Phong "${code}" khong ton tai!`)
JoinUnknown(id, code) ==
    /\ out' = << SocketEmit(id, "error_msg", <<"Phong", code, "khong ton tai!">>) >>
    /\ UNCHANGED <<rooms, adapter>>

\* socket.on('join_room')
JoinRoom(id, roomId, name) ==
    LET code == trim(toUpperCase(roomId))
    IN  /\ last' = [ev |-> "join_room", id |-> id]
        /\ UNCHANGED <<sockets, nextId>>
        /\ IF ~MapHas(rooms, code)
           THEN JoinUnknown(id, code)
           ELSE LET joined  == adapter \cup {<<id, code>>}
                    room    == MapGet(rooms, code)
                    players == AddPlayer(room.players, id, name)
                IN  /\ adapter' = joined
                    /\ rooms' = MapSet(rooms, code, [room EXCEPT !.players = players])
                    /\ out' =
                          << SocketEmit(id, "role_assigned", [type |-> "player", roomCode |-> code]),
                             IoToRoom(joined, code, "player_count_update", Len(players)) >>
                          \o (IF room.moderatorId /= NoId
                              THEN << IoToId(sockets, room.moderatorId, "player_list_update", players) >>
                              ELSE <<>>)
                          \o << SocketEmit(id, "init_state",
                                           [hasModerator |-> room.moderatorId /= NoId,
                                            playerCount |-> Len(players)]) >>

\* Faulty variant: shuffled[i] = shuffled[j] without the exchange.
SwapOverwrite(shuffled, i, j) == [shuffled EXCEPT ![i + 1] = shuffled[j + 1]]

\* [shuffled[i], shuffled[j]] = [shuffled[j], shuffled[i]], on 0-based indices
Swap(shuffled, i, j) ==
    [shuffled EXCEPT ![i + 1] = shuffled[j + 1], ![j + 1] = shuffled[i + 1]]

\* for (let i = shuffled.length - 1; i > 0; i--): js[i] is the j drawn at index i
RECURSIVE FisherYates(_, _, _)
FisherYates(shuffled, i, js) ==
    IF i > 0 THEN FisherYates(Swap(shuffled, i, js[i]), i - 1, js) ELSE shuffled

\* Faulty variant: Math.floor(Math.random() * shuffled.length) at every index.
JDrawsNaive(n) == [1..(n - 1) -> 0..(n - 1)]

\* The draws Math.floor(Math.random() * (i + 1)) of a shuffle of n roles.
JDraws(n) == {js \in [1..(n - 1) -> 0..(n - 1)] : \A i \in 1..(n - 1) : js[i] <= i}

\* room.players.forEach((player, index) => { player.role = shuffled[index]; ... })
\* (an index past the end of shuffled reads undefined)
AssignRoles(players, shuffled) ==
    [k \in DOMAIN players |->
        [players[k] EXCEPT !.role = IF k \in DOMAIN shuffled THEN shuffled[k] ELSE "undefined"]]

\* Faulty variant: every role goes to every player of the room.
ReceiveRoleToAll(socks, players) ==
    [k \in DOMAIN players |->
        [to |-> {players[j].id : j \in DOMAIN players} \cap socks,
         ev |-> "receive_role", data |-> players[k].role]]

\* io.to(player.id).emit('receive_role', player.role), player by player
ReceiveRoleMsgs(socks, players) ==
    [k \in DOMAIN players |-> IoToId(socks, players[k].id, "receive_role", players[k].role)]

\* socket.on('start_assign_roles')
StartAssignRoles(id, roomId, selectedRoles) ==
    /\ last' = [ev |-> "start_assign_roles", id |-> id]
    /\ UNCHANGED <<adapter, sockets, nextId>>
    /\ IF NotModerator(rooms, roomId, id)
       THEN /\ out' = <<>>
            /\ UNCHANGED rooms
       ELSE LET room == MapGet(rooms, roomId)
            IN  IF RolesMismatch(selectedRoles, room.players)
                THEN /\ out' = << SocketEmit(id, "error_msg",
                                             <<"Khong khop! Roles:", Len(selectedRoles),
                                               "Players:", Len(room.players)>>) >>
                     /\ UNCHANGED rooms
                ELSE \E js \in JDraws(Len(selectedRoles)) :
                     LET shuffled == FisherYates(selectedRoles, Len(selectedRoles) - 1, js)
                         players  == AssignRoles(room.players, shuffled)
                     IN  /\ rooms' = MapSet(rooms, roomId,
                                            [room EXCEPT !.players = players,
                                                         !.status = "assigned"])
                         /\ out' = ReceiveRoleMsgs(sockets, players)
                                   \o << SocketEmit(id, "role_summary", buildRoleSummary(players)),
                                         SocketEmit(id, "status_msg", "Da chia bai thanh cong!") >>

\* Faulty variant: the roles are left as they are.
ClearRolesNone(players) == players

\* room.players.forEach(p => { p.role = null; })
ClearRoles(players) == [k \in DOMAIN players |-> [players[k] EXCEPT !.role = NoRole]]

\* socket.on('reset_room')
ResetRoom(id, roomId) ==
    /\ last' = [ev |-> "reset_room", id |-> id]
    /\ UNCHANGED <<adapter, sockets, nextId>>
    /\ IF NotModerator(rooms, roomId, id)
       THEN /\ out' = <<>>
            /\ UNCHANGED rooms
       ELSE LET room    == MapGet(rooms, roomId)
                players == ClearRoles(room.players)
            IN  /\ rooms' = MapSet(rooms, roomId,
                                   [room EXCEPT !.players = players, !.status = "waiting"])
                /\ out' = << IoToRoom(adapter, roomId, "room_reset", <<>>),
                             SocketEmit(id, "player_list_update", players),
                             SocketEmit(id, "player_count_update", Len(players)),
                             SocketEmit(id, "status_msg", "Da reset! San sang chia lai.") >>

\* socket.on('kick_player')
KickPlayer(id, roomId, playerId) ==
    /\ last' = [ev |-> "kick_player", id |-> id]
    /\ UNCHANGED <<sockets, nextId>>
    /\ IF NotModerator(rooms, roomId, id)
       THEN /\ out' = <<>>
            /\ UNCHANGED <<rooms, adapter>>
       ELSE LET room    == MapGet(rooms, roomId)
                players == WithoutPlayer(room.players, playerId)
                \* const targetSocket = io.sockets.sockets.get(playerId)
                targetSocket == playerId \in sockets
            IN  /\ rooms' = MapSet(rooms, roomId, [room EXCEPT !.players = players])
                /\ adapter' = IF targetSocket THEN adapter \ {<<playerId, roomId>>} ELSE adapter
                /\ out' = << IoToRoom(adapter, roomId, "player_count_update", Len(players)),
                             IoToId(sockets, room.moderatorId, "player_list_update", players) >>
                          \o (IF targetSocket
                              THEN << SocketEmit(playerId, "kicked", <<>>),
                                      SocketEmit(playerId, "error_msg",
                                                 "Ban da bi Quan tro kick khoi phong.") >>
                              ELSE <<>>)

\* Faulty variant: the players are filtered only when the socket was not the
\* moderator (else in place of the second if).
CleanupEntryElse(entry, socketId, ad, socks) ==
    LET room    == entry.val
        wasMod  == room.moderatorId = socketId
        modId   == IF wasMod THEN NoId ELSE room.moderatorId
        players == IF wasMod THEN room.players ELSE WithoutPlayer(room.players, socketId)
        changed == Len(players) /= Len(room.players)
    IN  [ kept  |-> ~EmptyRoom(players, modId),
          entry |-> [key |-> entry.key,
                     val |-> [room EXCEPT !.moderatorId = modId, !.players = players]],
          out   |-> (IF wasMod
                     THEN << IoToRoom(ad, entry.key, "mod_status_update", [hasModerator |-> FALSE]) >>
                     ELSE <<>>)
                    \o (IF changed
                        THEN << IoToRoom(ad, entry.key, "player_count_update", Len(players)) >>
                             \o (IF modId /= NoId
                                 THEN << IoToId(socks, modId, "player_list_update", players) >>
                                 ELSE <<>>)
                        ELSE <<>>) ]

\* Faulty variant: the moderator is not sent the new list.
CleanupEntryNoList(entry, socketId, ad, socks) ==
    LET room    == entry.val
        wasMod  == room.moderatorId = socketId
        modId   == IF wasMod THEN NoId ELSE room.moderatorId
        players == WithoutPlayer(room.players, socketId)
        changed == Len(players) /= Len(room.players)
    IN  [ kept  |-> ~EmptyRoom(players, modId),
          entry |-> [key |-> entry.key,
                     val |-> [room EXCEPT !.moderatorId = modId, !.players = players]],
          out   |-> (IF wasMod
                     THEN << IoToRoom(ad, entry.key, "mod_status_update", [hasModerator |-> FALSE]) >>
                     ELSE <<>>)
                    \o (IF changed
                        THEN << IoToRoom(ad, entry.key, "player_count_update", Len(players)) >>
                        ELSE <<>>) ]

\* One turn of the loop of cleanupUser on the entry `entry`: the entry as it is
\* left (kept is FALSE when rooms.delete removed it) and what was emitted.
CleanupEntry(entry, socketId, ad, socks) ==
    LET room    == entry.val
        wasMod  == room.moderatorId = socketId
        modId   == IF wasMod THEN NoId ELSE room.moderatorId
        players == WithoutPlayer(room.players, socketId)
        changed == Len(players) /= Len(room.players)
    IN  [ kept  |-> ~EmptyRoom(players, modId),
          entry |-> [key |-> entry.key,
                     val |-> [room EXCEPT !.moderatorId = modId, !.players = players]],
          out   |-> (IF wasMod
                     THEN << IoToRoom(ad, entry.key, "mod_status_update", [hasModerator |-> FALSE]) >>
                     ELSE <<>>)
                    \o (IF changed
                        THEN << IoToRoom(ad, entry.key, "player_count_update", Len(players)) >>
                             \o (IF modId /= NoId
                                 THEN << IoToId(socks, modId, "player_list_update", players) >>
                                 ELSE <<>>)
                        ELSE <<>>) ]

\* cleanupUser: for (const [roomId, room] of rooms.entries()), in insertion order
RECURSIVE cleanupUser(_, _, _, _)
cleanupUser(m, socketId, ad, socks) ==
    IF m = <<>> THEN [rooms |-> <<>>, out |-> <<>>]
    ELSE LET turn == CleanupEntry(Head(m), socketId, ad, socks)
             rest == cleanupUser(Tail(m), socketId, ad, socks)
         IN  [rooms |-> (IF turn.kept THEN <<turn.entry>> ELSE <<>>) \o rest.rooms,
              out   |-> turn.out \o rest.out]

\* socket.on('disconnect'): the transport has already taken the socket out of
\* io.sockets.sockets and of every group when the handler runs.
Disconnect(id) ==
    LET socks == sockets \ {id}
        ad    == {pair \in adapter : pair[1] /= id}
        done  == cleanupUser(rooms, id, ad, socks)
    IN  /\ sockets' = socks
        /\ adapter' = ad
        /\ rooms' = done.rooms
        /\ out' = done.out
        /\ last' = [ev |-> "disconnect", id |-> id]
        /\ UNCHANGED nextId

\* A socket that has not been sent a player_list_update yet.
Unseen == << NoId >>

\* The members of a players list, in its order.
PlayerIdSeq(players) == [k \in DOMAIN players |-> players[k].id]

\* The emissions `msgs` reach their sockets in order: a player_list_update
\* replaces the list its receivers had.
RECURSIVE Deliver(_, _)
Deliver(had, msgs) ==
    IF msgs = <<>> THEN had
    ELSE LET msg == Head(msgs)
         IN  Deliver(IF msg.ev = "player_list_update"
                     THEN [c \in DOMAIN had |->
                              IF c \in msg.to THEN PlayerIdSeq(msg.data) ELSE had[c]]
                     ELSE had,
                     Tail(msgs))

\* What the sockets connected after the event have got once it is handled.
Delivered ==
    seen' = Deliver([c \in sockets' |-> IF c \in sockets THEN seen[c] ELSE Unseen], out')

\* Each inbound event is handled to completion, no call being in progress
\* before or after.
Handled == Delivered /\ call.op = "idle" /\ UNCHANGED call

\* ------------------------------------------------------------------ inputs
\* A room id as a client may type it: lower case, with blanks around.
AsTyped(code) == <<" ">> \o [k \in DOMAIN code |-> LowerChar(code[k])] \o <<" ">>

RoomIds(numCodes) ==
    UNION {{CodeOfDraw(d), AsTyped(CodeOfDraw(d))} : d \in Draws(numCodes)}

RoleLists(maxRoles) == SeqsUpTo(Roles, maxRoles)

NextFor(maxConns, attemptSeqs, roomIds, roleLists, names) ==
    \/ Connection(maxConns) /\ Handled
    \/ \E id \in sockets, attempts \in attemptSeqs : CreateRoom(id, attempts) /\ Handled
    \/ \E id \in sockets, roomId \in roomIds, name \in names :
          JoinRoom(id, roomId, name) /\ Handled
    \/ \E id \in sockets, roomId \in roomIds, selectedRoles \in roleLists :
          StartAssignRoles(id, roomId, selectedRoles) /\ Handled
    \/ \E id \in sockets, roomId \in roomIds : ResetRoom(id, roomId) /\ Handled
    \/ \E id \in sockets, roomId \in roomIds, playerId \in 1..maxConns :
          KickPlayer(id, roomId, playerId) /\ Handled
    \/ \E id \in sockets : Disconnect(id) /\ Handled

\* One room, three connections, no display names.
SpecAttempts == DrawSeqs(NumCodes)
SpecRoomIds == RoomIds(NumCodes)
SpecRoleLists == RoleLists(MaxRoles)

Next == NextFor(MaxConns, SpecAttempts, SpecRoomIds, SpecRoleLists, {NoName})

Spec == Init /\ [][Next]_vars

\* Two rooms, two connections.
RoomsAttempts == DrawSeqs(RoomsCodes)
RoomsRoomIds == RoomIds(RoomsCodes)
RoomsRoleLists == RoleLists(RoomsRoles)

NextRooms == NextFor(RoomsConns, RoomsAttempts, RoomsRoomIds, RoomsRoleLists, {NoName})

SpecRooms == Init /\ [][NextRooms]_vars

\* One room, two connections, with and without display names.
NextNames == NextFor(RoomsConns, SpecAttempts, SpecRoomIds, RoomsRoleLists, Names)

SpecNames == Init /\ [][NextNames]_vars

\* The shuffle of start_assign_roles on its own: any list of roles, any draws.
ShuffleLists == SeqsUpTo(ShuffleRoles, MaxShuffle)

InitShuffle ==
    /\ rooms = NewMap
    /\ adapter = {}
    /\ sockets = {}
    /\ nextId = 0
    /\ last = [ev |-> "none", id |-> NoId]
    /\ out = <<>>
    /\ seen = <<>>
    /\ call \in {[op |-> "shuffle", selectedRoles |-> list, shuffled |-> list, js |-> <<>>] :
                    list \in ShuffleLists}

\* const shuffled = [...selectedRoles]; for (...) { const j = ...; swap }
Shuffle ==
    /\ call.op = "shuffle"
    /\ \E js \in JDraws(Len(call.selectedRoles)) :
          call' = [call EXCEPT !.op = "shuffled",
                               !.shuffled = FisherYates(call.selectedRoles,
                                                        Len(call.selectedRoles) - 1, js),
                               !.js = js]
    /\ UNCHANGED <<rooms, adapter, sockets, nextId, last, out, seen>>

NextShuffle == Shuffle

SpecShuffle == InitShuffle /\ [][NextShuffle]_vars

\* create_room attempt by attempt: the handler calls generateRoomCode, every
\* attempt draws a code, a live code makes it recurse, a free one is returned
\* and the handler goes on to its end.  Two room codes, two connections.
CreateDraws == Draws(RoomsCodes)

\* socket.on('create_room'): const code = generateRoomCode() is entered
CreateRoomCall(id) ==
    /\ call.op = "idle"
    /\ call' = [op |-> "generateRoomCode", id |-> id, retries |-> 0]
    /\ UNCHANGED <<rooms, adapter, sockets, nextId, last, out, seen>>

\* if (rooms.has(code)) return generateRoomCode()
GenerateRetry(draws) ==
    /\ call.op = "generateRoomCode"
    /\ \E draw \in draws : generateRoomCode(rooms, << draw >>) = Pending
    /\ call' = [call EXCEPT !.retries = IF @ < MaxRetries THEN @ + 1 ELSE @]
    /\ UNCHANGED <<rooms, adapter, sockets, nextId, last, out, seen>>

\* return code, and the rest of the create_room handler
GenerateReturn(draws) ==
    /\ call.op = "generateRoomCode"
    /\ \E draw \in draws : CreateRoom(call.id, << draw >>)
    /\ call' = [call EXCEPT !.op = "idle"]
    /\ Delivered

NextCreate ==
    \/ Connection(RoomsConns) /\ Handled
    \/ \E id \in sockets : CreateRoomCall(id)
    \/ GenerateRetry(CreateDraws)
    \/ GenerateReturn(CreateDraws)
    \/ \E id \in sockets, roomId \in RoomsRoomIds : JoinRoom(id, roomId, NoName) /\ Handled
    \/ \E id \in sockets : Disconnect(id) /\ Handled

\* Math.random is fair: an attempt that can draw a free code is not put off
\* for ever.
SpecCreate == Init /\ [][NextCreate]_vars /\ WF_vars(GenerateReturn(CreateDraws))

\* ------------------------------------------------------------- properties
\* The rooms of a registry, and the players of a room as ids.
RoomsOf(m) == {m[k].val : k \in DOMAIN m}
PlayerIds(players) == {players[k].id : k \in DOMAIN players}
RolesOf(players) == [k \in DOMAIN players |-> players[k].role]
Count(x, seq) == Cardinality({k \in DOMAIN seq : seq[k] = x})
NameRole(list) == [k \in DOMAIN list |-> [name |-> list[k].name, role |-> list[k].role]]

\* C1: after every handled event, every room of the registry has a moderator
\* or at least one player (an empty, unmoderated room does not linger, so its
\* code no longer resolves).
C1_NoEmptyRoom ==
    \A room \in RoomsOf(rooms) : room.moderatorId /= NoId \/ Len(room.players) > 0

\* The last player of an unmoderated room has just disconnected, and the
\* registry no longer holds that room.
C1_Witness ==
    /\ last.ev = "disconnect"
    /\ out /= <<>>
    /\ out[1].ev = "player_count_update"
    /\ out[1].data = 0
    /\ Len(out) = 1
    /\ rooms = <<>>

\* C2: no players list holds two entries with the same connection id, and a
\* join_room by a connection that is already a player of a room leaves that
\* room's players list (members, order, names, roles) as it was.
UniqueIds(players) ==
    \A i, j \in DOMAIN players : players[i].id = players[j].id => i = j

C2_JoinIdempotent ==
    [][ /\ \A room \in RoomsOf(rooms') : UniqueIds(room.players)
        /\ last'.ev = "join_room" =>
              \A k \in DOMAIN rooms :
                 last'.id \in PlayerIds(rooms[k].val.players) =>
                    /\ MapHas(rooms', rooms[k].key)
                    /\ MapGet(rooms', rooms[k].key).players = rooms[k].val.players
                    /\ Count(last'.id, [n \in DOMAIN rooms[k].val.players |->
                                           MapGet(rooms', rooms[k].key).players[n].id]) = 1
      ]_vars

\* A join was accepted from a connection that is the first of two players of
\* the room: it was a player already, so the join was a repeat.
C2_Witness ==
    /\ last.ev = "join_room"
    /\ out /= <<>>
    /\ out[1].ev = "role_assigned"
    /\ \E room \in RoomsOf(rooms) :
          /\ Len(room.players) >= 2
          /\ room.players[1].id = last.id
          /\ room.players[1].name = <<"Ana">>

\* C3: a start_assign_roles by the room's moderator with as many roles as the
\* room has players leaves the same players in the same order, each with one
\* of the roles, the roles held being the roles supplied counted with
\* multiplicity, and the status assigned, whatever the shuffle drew.
C3_RolesDealt ==
    [][ last'.ev = "start_assign_roles" =>
          \A roomId \in SpecRoomIds :
             (MapHas(rooms, roomId) /\ MapGet(rooms, roomId).moderatorId = last'.id) =>
                \A selectedRoles \in SpecRoleLists :
                   ( /\ Len(selectedRoles) = Len(MapGet(rooms, roomId).players)
                     /\ StartAssignRoles(last'.id, roomId, selectedRoles) )
                   => LET before == MapGet(rooms, roomId).players
                          after  == MapGet(rooms', roomId)
                      IN  /\ after.status = "assigned"
                          /\ Len(after.players) = Len(before)
                          /\ \A k \in DOMAIN before :
                                /\ after.players[k].id = before[k].id
                                /\ after.players[k].name = before[k].name
                                /\ after.players[k].role \in Roles
                          /\ \A r \in Roles :
                                Count(r, RolesOf(after.players)) = Count(r, selectedRoles)
      ]_vars

\* Three players were dealt two Wolves and a Villager.
C3_Witness ==
    /\ last.ev = "start_assign_roles"
    /\ Len(out) = 5
    /\ \E room \in RoomsOf(rooms) :
          /\ room.status = "assigned"
          /\ room.moderatorId = last.id
          /\ Len(room.players) = 3
          /\ room.players[1].role = "Wolf"
          /\ room.players[2].role = "Villager"
          /\ room.players[3].role = "Wolf"

\* C4: a message that carries a role reaches only the player who holds that
\* role (receive_role) or the moderator of the room whose list it is
\* (role_summary, player_list_update with roles): no other connection
\* receives another player's role.
C4_RolesPrivate ==
    \A n \in DOMAIN out : \A c \in out[n].to :
       /\ out[n].ev = "receive_role" =>
             \E room \in RoomsOf(rooms) : \E k \in DOMAIN room.players :
                room.players[k].id = c /\ room.players[k].role = out[n].data
       /\ ( /\ out[n].ev \in {"role_summary", "player_list_update"}
            /\ \E k \in DOMAIN out[n].data : out[n].data[k].role /= NoRole )
          => \E room \in RoomsOf(rooms) :
                /\ room.moderatorId = c
                /\ NameRole(room.players) = NameRole(out[n].data)

\* Roles were dealt to two players, neither of them the moderator: each got a
\* receive_role, and the moderator the summary.
C4_Witness ==
    /\ last.ev = "start_assign_roles"
    /\ Len(out) = 4
    /\ out[1].ev = "receive_role" /\ out[1].to /= {}
    /\ out[2].ev = "receive_role" /\ out[2].to /= {}
    /\ out[1].data /= out[2].data
    /\ out[3].ev = "role_summary" /\ out[3].to = {last.id}
    /\ last.id \notin out[1].to \cup out[2].to

\* C5: a start_assign_roles by the room's moderator with K roles for N /= K
\* players changes nothing in the registry or the groups and emits exactly one
\* message, an error_msg to the caller that reports K and N.
C5_MismatchRefused ==
    [][ last'.ev = "start_assign_roles" =>
          \A roomId \in SpecRoomIds :
             (MapHas(rooms, roomId) /\ MapGet(rooms, roomId).moderatorId = last'.id) =>
                \A selectedRoles \in SpecRoleLists :
                   ( /\ Len(selectedRoles) /= Len(MapGet(rooms, roomId).players)
                     /\ StartAssignRoles(last'.id, roomId, selectedRoles) )
                   => /\ rooms' = rooms
                      /\ adapter' = adapter
                      /\ Len(out') = 1
                      /\ out'[1].ev = "error_msg"
                      /\ out'[1].to = {last'.id}
                      /\ out'[1].data[2] = Len(selectedRoles)
                      /\ out'[1].data[4] = Len(MapGet(rooms, roomId).players)
      ]_vars

\* The moderator of a room whose roles are already assigned was refused.
C5_Witness ==
    /\ last.ev = "start_assign_roles"
    /\ Len(out) = 1
    /\ out[1].ev = "error_msg"
    /\ \E room \in RoomsOf(rooms) :
          /\ room.moderatorId = last.id
          /\ room.status = "assigned"
          /\ \E k \in DOMAIN room.players : room.players[k].role \in Roles

\* C6: a join_room whose room id spells no live room's code (as it is, or in
\* lower case with blanks around) creates no room, adds no player, joins no
\* group and emits one message only, an error_msg to the caller.
C6_UnknownJoinRefused ==
    [][ last'.ev = "join_room" =>
          \A roomId \in RoomsRoomIds :
             ( /\ JoinRoom(last'.id, roomId, NoName)
               /\ \A k \in DOMAIN rooms : roomId \notin {rooms[k].key, AsTyped(rooms[k].key)} )
             => /\ rooms' = rooms
                /\ adapter' = adapter
                /\ Len(out') = 1
                /\ out'[1].ev = "error_msg"
                /\ out'[1].to = {last'.id}
      ]_vars

\* A join was refused while another room was live.
C6_Witness ==
    /\ last.ev = "join_room"
    /\ Len(out) = 1
    /\ out[1].ev = "error_msg"
    /\ Len(rooms) = 1
    /\ Len(rooms[1].val.players) = 1
    /\ last.id \notin PlayerIds(rooms[1].val.players)
    /\ {pair \in adapter : pair[1] = last.id} = {}

\* C7: a start_assign_roles, reset_room or kick_player from a connection that
\* is not the moderator of the room addressed (no such room, no moderator, or
\* another moderator) changes no room and no group and emits nothing.
C7_UnauthorizedIgnored ==
    [][ \A roomId \in SpecRoomIds :
           LET id           == last'.id
               unauthorized == \/ ~MapHas(rooms, roomId)
                               \/ MapGet(rooms, roomId).moderatorId /= id
               ignored      == rooms' = rooms /\ adapter' = adapter /\ out' = <<>>
           IN  /\ ( /\ last'.ev = "start_assign_roles"
                    /\ unauthorized
                    /\ \E selectedRoles \in SpecRoleLists :
                          StartAssignRoles(id, roomId, selectedRoles) ) => ignored
               /\ ( /\ last'.ev = "reset_room"
                    /\ unauthorized
                    /\ ResetRoom(id, roomId) ) => ignored
               /\ ( /\ last'.ev = "kick_player"
                    /\ unauthorized
                    /\ \E playerId \in 1..MaxConns : KickPlayer(id, roomId, playerId) ) => ignored
      ]_vars

\* A player of a moderated room asked for a kick and nothing happened.
C7_Witness ==
    /\ last.ev = "kick_player"
    /\ out = <<>>
    /\ \E room \in RoomsOf(rooms) :
          /\ room.moderatorId \notin {NoId, last.id}
          /\ last.id \in PlayerIds(room.players)
          /\ Len(room.players) = 2
          /\ room.status = "assigned"

\* C8: in a room whose status is waiting no player holds a role.
C8_WaitingNoRoles ==
    \A room \in RoomsOf(rooms) :
       room.status = "waiting" => \A k \in DOMAIN room.players : room.players[k].role = NoRole

\* The moderator has just reset a room of two players.
C8_Witness ==
    /\ last.ev = "reset_room"
    /\ Len(out) = 4
    /\ \E room \in RoomsOf(rooms) :
          /\ room.moderatorId = last.id
          /\ room.status = "waiting"
          /\ Len(room.players) = 2

\* C9: the code create_room returns is not a code of the registry at the time
\* of the call: every room that was there is left as it was, the new room is
\* added with the caller as moderator, no players and status waiting, and no
\* two rooms of the registry share a code.
C9_FreshCode ==
    [][ /\ \A i, j \in DOMAIN rooms' : rooms'[i].key = rooms'[j].key => i = j
        /\ last'.ev = "create_room" =>
              LET code == out'[1].data.roomCode
              IN  /\ out'[1].ev = "room_created"
                  /\ ~MapHas(rooms, code)
                  /\ Len(rooms') = Len(rooms) + 1
                  /\ \A k \in DOMAIN rooms : rooms'[k] = rooms[k]
                  /\ rooms'[Len(rooms')] =
                        [key |-> code,
                         val |-> [moderatorId |-> last'.id, players |-> <<>>,
                                  status |-> "waiting"]]
      ]_vars

\* A room was created while another room, with a player in it, was live.
C9_Witness ==
    /\ last.ev = "create_room"
    /\ Len(rooms) = 2
    /\ Len(rooms[1].val.players) = 1
    /\ rooms[1].val.moderatorId \notin {NoId, last.id}
    /\ rooms[2].val.moderatorId = last.id

\* C10: a room leaves the registry only in a disconnect that takes away its
\* moderator, if it had one, and every player it had: a room with another
\* moderator or another player stays.
C10_DeletedOnlyEmpty ==
    [][ \A k \in DOMAIN rooms :
           ~MapHas(rooms', rooms[k].key) =>
              /\ last'.ev = "disconnect"
              /\ rooms[k].val.moderatorId \in {NoId, last'.id}
              /\ PlayerIds(rooms[k].val.players) \subseteq {last'.id}
      ]_vars

\* The moderator has disconnected and the room, which has a player, is still
\* in the registry.
C10_Witness ==
    /\ last.ev = "disconnect"
    /\ Len(out) = 1
    /\ out[1].ev = "mod_status_update"
    /\ \E room \in RoomsOf(rooms) :
          /\ room.moderatorId = NoId
          /\ Len(room.players) = 1

\* C11: a player without a role in a room whose status is assigned (one who
\* joined after the deal) is given no role by any event while the status stays
\* assigned, that is before the next reset_room.
C11_LateJoinerNoRole ==
    [][ \A k \in DOMAIN rooms :
           (rooms[k].val.status = "assigned" /\ MapHas(rooms', rooms[k].key)) =>
              \A p \in DOMAIN rooms[k].val.players :
                 rooms[k].val.players[p].role = NoRole =>
                    \A q \in DOMAIN MapGet(rooms', rooms[k].key).players :
                       MapGet(rooms', rooms[k].key).players[q].id = rooms[k].val.players[p].id
                          => MapGet(rooms', rooms[k].key).players[q].role = NoRole
      ]_vars

\* C12: a kick_player by the moderator of the room that names a connection
\* which is not in the room's players list takes that connection out of no
\* group and sends it neither kicked nor error_msg.
C12_KickOnlyPlayers ==
    [][ last'.ev = "kick_player" =>
          \A roomId \in SpecRoomIds :
             (MapHas(rooms, roomId) /\ MapGet(rooms, roomId).moderatorId = last'.id) =>
                \A playerId \in 1..MaxConns :
                   ( /\ playerId \notin PlayerIds(MapGet(rooms, roomId).players)
                     /\ KickPlayer(last'.id, roomId, playerId) )
                   => /\ adapter' = adapter
                      /\ \A n \in DOMAIN out' :
                            out'[n].ev \in {"kicked", "error_msg"} => playerId \notin out'[n].to
      ]_vars

\* C13: the status of a room changes only from waiting to assigned, in a
\* start_assign_roles of its moderator that dealt a role to each player, and
\* from assigned to waiting, in a reset_room of its moderator; a room that
\* enters the registry does so in a create_room, with status waiting.
C13_StatusTransitions ==
    [][ /\ \A k \in DOMAIN rooms :
              MapHas(rooms', rooms[k].key) =>
                 LET before == rooms[k].val
                     after  == MapGet(rooms', rooms[k].key)
                 IN  after.status /= before.status =>
                        \/ /\ last'.ev = "start_assign_roles"
                           /\ before.moderatorId = last'.id
                           /\ before.status = "waiting"
                           /\ after.status = "assigned"
                           /\ Len(out') = Len(before.players) + 2
                           /\ \A p \in DOMAIN after.players : after.players[p].role \in Roles
                        \/ /\ last'.ev = "reset_room"
                           /\ before.moderatorId = last'.id
                           /\ before.status = "assigned"
                           /\ after.status = "waiting"
        /\ \A k \in DOMAIN rooms' :
              ~MapHas(rooms, rooms'[k].key) =>
                 last'.ev = "create_room" /\ rooms'[k].val.status = "waiting"
      ]_vars

\* The moderator has just dealt one role to the one player of a room.
C13_Witness ==
    /\ last.ev = "start_assign_roles"
    /\ Len(out) = 3
    /\ out[2].ev = "role_summary"
    /\ \E room \in RoomsOf(rooms) :
          /\ room.status = "assigned"
          /\ Len(room.players) = 1
          /\ room.players[1].role \in Roles

\* C14: no room names a socket that is not connected, as moderator or as
\* player; the socket whose disconnect was handled is not connected, and a
\* socket that is not connected is never connected again.
C14_DisconnectedGone ==
    [][ /\ \A room \in RoomsOf(rooms') :
              /\ room.moderatorId /= NoId => room.moderatorId \in sockets'
              /\ PlayerIds(room.players) \subseteq sockets'
        /\ \A c \in 1..nextId : c \notin sockets => c \notin sockets'
        /\ last'.ev = "disconnect" => (last'.id \in sockets /\ last'.id \notin sockets')
      ]_vars

\* The socket that has disconnected was the moderator and a player of a room
\* that another player keeps alive.
C14_Witness ==
    /\ last.ev = "disconnect"
    /\ Len(out) = 2
    /\ out[1].ev = "mod_status_update"
    /\ out[2].ev = "player_count_update"
    /\ out[2].data = 1
    /\ Len(rooms) = 1

\* The rooms other than the one with the code `code` are the same before and
\* after the step, and none came or went.
OtherRoomsKept(code) ==
    /\ \A k \in DOMAIN rooms :
          rooms[k].key /= code =>
             MapHas(rooms', rooms[k].key) /\ MapGet(rooms', rooms[k].key) = rooms[k].val
    /\ \A k \in DOMAIN rooms' : rooms'[k].key /= code => MapHas(rooms, rooms'[k].key)

\* C15: a join_room, start_assign_roles, reset_room or kick_player leaves every
\* room but the one it names as it was and neither adds nor removes another
\* room; a disconnect leaves as it was every room in which the socket is
\* neither moderator nor player.  (A step that leaves the registry as it was
\* leaves every room as it was.)
C15_OtherRoomsUntouched ==
    [][ rooms' /= rooms =>
          /\ last'.ev = "join_room" =>
                \A roomId \in RoomsRoomIds :
                   JoinRoom(last'.id, roomId, NoName) => OtherRoomsKept(trim(toUpperCase(roomId)))
          /\ last'.ev = "start_assign_roles" =>
                \A roomId \in RoomsRoomIds : \A selectedRoles \in RoomsRoleLists :
                   StartAssignRoles(last'.id, roomId, selectedRoles) => OtherRoomsKept(roomId)
          /\ last'.ev = "reset_room" =>
                \A roomId \in RoomsRoomIds :
                   ResetRoom(last'.id, roomId) => OtherRoomsKept(roomId)
          /\ last'.ev = "kick_player" =>
                \A roomId \in RoomsRoomIds : \A playerId \in 1..RoomsConns :
                   KickPlayer(last'.id, roomId, playerId) => OtherRoomsKept(roomId)
          /\ last'.ev = "disconnect" =>
                \A k \in DOMAIN rooms :
                   ( /\ rooms[k].val.moderatorId /= last'.id
                     /\ last'.id \notin PlayerIds(rooms[k].val.players) )
                   => /\ MapHas(rooms', rooms[k].key)
                      /\ MapGet(rooms', rooms[k].key) = rooms[k].val
      ]_vars

\* A moderator has kicked the player of its room while it is itself the player
\* of another moderator's room.
C15_Witness ==
    /\ last.ev = "kick_player"
    /\ Len(out) = 4
    /\ Len(rooms) = 2
    /\ \E k \in DOMAIN rooms :
          /\ rooms[k].val.moderatorId \notin {NoId, last.id}
          /\ PlayerIds(rooms[k].val.players) = {last.id}

\* C16, as stated: the ids of the last player_list_update sent to the moderator
\* of a room are, in order, the ids of the room's players.
C16_ModeratorListCurrent ==
    \A room \in RoomsOf(rooms) :
       room.moderatorId /= NoId => seen[room.moderatorId] = PlayerIdSeq(room.players)

\* The rooms of the registry that the socket c moderates.
ModeratedBy(m, c) == {k \in DOMAIN m : m[k].val.moderatorId = c}

\* C16, amended: an event that changes the members or the order of the players
\* of a room that has a moderator sends that moderator a player_list_update
\* with the new list; and the last player_list_update sent to a socket that
\* moderates one room only lists that room's players, in order.
C16_ModeratorListCurrentOneRoom ==
    [][ /\ \A k \in DOMAIN rooms :
              (rooms' /= rooms /\ MapHas(rooms', rooms[k].key)) =>
                 LET before == rooms[k].val
                     after  == MapGet(rooms', rooms[k].key)
                 IN  ( /\ after.moderatorId /= NoId
                       /\ PlayerIdSeq(after.players) /= PlayerIdSeq(before.players) )
                     => \E n \in DOMAIN out' :
                           /\ out'[n].ev = "player_list_update"
                           /\ out'[n].to = {after.moderatorId}
                           /\ out'[n].data = after.players
        /\ \A k \in DOMAIN rooms' :
              LET c == rooms'[k].val.moderatorId
              IN  (c /= NoId /\ ModeratedBy(rooms', c) = {k})
                  => seen'[c] = PlayerIdSeq(rooms'[k].val.players)
      ]_vars

\* With two rooms live, the moderator of one has joined the other, whose
\* moderator was sent the list with the newcomer.
C16_Witness ==
    /\ last.ev = "join_room"
    /\ Len(rooms) = 2
    /\ Len(out) = 4
    /\ out[3].ev = "player_list_update"
    /\ \E room \in RoomsOf(rooms) :
          /\ room.moderatorId \notin {NoId, last.id}
          /\ out[3].to = {room.moderatorId}
          /\ PlayerIdSeq(room.players) = << last.id >>
          /\ seen[room.moderatorId] = << last.id >>

\* The rearrangements of a list, and the lists without a repeated element.
Rearrangements(list) ==
    {[k \in DOMAIN list |-> list[f[k]]] :
        f \in {g \in [DOMAIN list -> DOMAIN list] :
                  \A a, b \in DOMAIN list : g[a] = g[b] => a = b}}

Distinct(list) == \A a, b \in DOMAIN list : list[a] = list[b] => a = b

\* C17: over the draws j in 0..i for i = N-1 down to 1, the shuffle of a list
\* of roles yields every rearrangement of the list and nothing else, and a
\* rearrangement of N different roles comes from one sequence of draws only.
C17_ShuffleUniform ==
    call.op = "shuffled" =>
       LET list == call.selectedRoles
           n    == Len(list)
       IN  /\ {FisherYates(list, n - 1, js) : js \in JDraws(n)} = Rearrangements(list)
           /\ call.shuffled \in Rearrangements(list)
           /\ Distinct(list) =>
                 \A js \in JDraws(n) :
                    FisherYates(list, n - 1, js) = call.shuffled => js = call.js

\* Four different roles were shuffled and none is where it was.
C17_Witness ==
    /\ call.op = "shuffled"
    /\ Len(call.selectedRoles) = 4
    /\ Distinct(call.selectedRoles)
    /\ \A k \in DOMAIN call.shuffled : call.shuffled[k] /= call.selectedRoles[k]

\* C18: a room enters the registry in a create_room, with the caller as
\* moderator; afterwards its moderator is the same socket or absent, and once
\* absent it stays absent, the status and the role of every player stay what
\* they were, and no player is taken out except by its own disconnect.
C18_ModeratorIsCreator ==
    [][ /\ \A k \in DOMAIN rooms' :
              ~MapHas(rooms, rooms'[k].key) =>
                 last'.ev = "create_room" /\ rooms'[k].val.moderatorId = last'.id
        /\ \A k \in DOMAIN rooms :
              MapHas(rooms', rooms[k].key) =>
                 LET before == rooms[k].val
                     after  == MapGet(rooms', rooms[k].key)
                 IN  /\ after.moderatorId \in {before.moderatorId, NoId}
                     /\ before.moderatorId = NoId =>
                           /\ after.moderatorId = NoId
                           /\ after.status = before.status
                           /\ \A p \in DOMAIN before.players : \A q \in DOMAIN after.players :
                                 after.players[q].id = before.players[p].id =>
                                    after.players[q].role = before.players[p].role
                           /\ PlayerIds(before.players) \ PlayerIds(after.players)
                                 \subseteq (IF last'.ev = "disconnect" THEN {last'.id} ELSE {})
                           /\ last'.ev \in {"start_assign_roles", "reset_room", "kick_player"} =>
                                 after = before
      ]_vars

\* A player of a room that lost its moderator after the deal asked for a reset
\* and nothing happened: the roles are still held.
C18_Witness ==
    /\ last.ev = "reset_room"
    /\ out = <<>>
    /\ \E room \in RoomsOf(rooms) :
          /\ room.moderatorId = NoId
          /\ room.status = "assigned"
          /\ last.id \in PlayerIds(room.players)
          /\ \A p \in DOMAIN room.players : room.players[p].role \in Roles

\* C19: the broadcast group of every room of the registry is the room's
\* moderator, when it has one, and its players.
C19_GroupIsRoom ==
    \A k \in DOMAIN rooms :
       Members(adapter, rooms[k].key)
          = ({rooms[k].val.moderatorId} \ {NoId}) \cup PlayerIds(rooms[k].val.players)

====
